---- MODULE Spec2Model ----
(***************************************************************************)
(* A model of basic_csv<char> (csv.hpp): a header row, a vector of data    *)
(* rows, a fixed separator, and the load/save routines with their line     *)
(* helpers.  Text (a field, a line, a file) is a sequence of one-character *)
(* strings.  Every public method is one action; the outcome of the last    *)
(* call is kept in op/arg_row/arg_idx/io/result/ret.                       *)
(***************************************************************************)
EXTENDS Integers, Sequences, FiniteSets

VARIABLES
    m_separator,  \* const char m_separator
    m_header,     \* row_t m_header
    m_rows,       \* std::vector<row_t> m_rows
    op,           \* name of the last call
    arg_row,      \* row argument of the last set_header/add_row call
    arg_idx,      \* size_t argument of the last row/reserve call
    io,           \* the file the last load read / the last save wrote
    handle,       \* TRUE while a file stream of the last call is still open
    result,       \* "ok", the error raised, or "crash"
    ret           \* the row the last row(idx) call returned

vars == <<m_separator, m_header, m_rows, op, arg_row, arg_idx, io, handle, result, ret>>

table == <<m_separator, m_header, m_rows>>

-----------------------------------------------------------------------------
(* Bounds of the model *)

MaxCols == 1      \* longest row handed to set_header / add_row
MaxRows == 2      \* most rows a table holds (guards add_row and load)
MaxFileLen == 1   \* longest file the environment hands to load in Spec
MaxLoadLen == 6   \* longest file handed to load in SpecLoad

NL == "\n"
Seps == {",", ";"}              \* the separators a table is constructed with
Fields == {<<>>, <<"a">>}       \* the fields callers put into rows
FileChars == {"a", ",", NL}     \* the characters of the files of Spec
LoadChars == {"a", ",", ";", NL} \* the characters of the files of SpecLoad
Garbage == {<<>>, <<"a">>}      \* what a read past the end of a row may yield

RowsOfWidth(n) == [1..n -> Fields]
RowInputs == UNION {RowsOfWidth(n) : n \in 0..MaxCols}

\* a path that cannot be opened / a file holding the text t
NoFile == [exists |-> FALSE, text |-> <<>>]
FileOf(t) == [exists |-> TRUE, text |-> t]
FilesOver(chars, n) ==
    {NoFile} \cup {FileOf(t) : t \in UNION {[1..k -> chars] : k \in 0..n}}

-----------------------------------------------------------------------------
(* Text helpers *)

\* std::count over a character range
Count(s, c) == Cardinality({i \in 1..Len(s) : s[i] = c})

\* first position >= pos holding c, or Len(s)+1 when there is none
RECURSIVE Find(_, _, _)
Find(s, c, pos) ==
    IF pos > Len(s) THEN Len(s) + 1
    ELSE IF s[pos] = c THEN pos
    ELSE Find(s, c, pos + 1)

\* the characters s[from..to] (empty when from > to)
Sub(s, from, to) == SubSeq(s, from, to)

-----------------------------------------------------------------------------
(* Streams: std::getline on an ifstream / stringstream *)

\* a stream positioned at its first character with no state bit set
Rewound == [pos |-> 1, eof |-> FALSE, fail |-> FALSE]

\* std::getline(stream, str, delim): str is what it leaves in str (a fresh,
\* empty string in every call of the source), st the stream afterwards.
getline(text, st, delim) ==
    IF st.eof \/ st.fail
    THEN [str |-> <<>>, st |-> [st EXCEPT !.fail = TRUE]]
    ELSE LET j == Find(text, delim, st.pos) IN
         IF j <= Len(text)
         THEN [str |-> Sub(text, st.pos, j - 1),
               st  |-> [pos |-> j + 1, eof |-> FALSE, fail |-> FALSE]]
         ELSE [str |-> Sub(text, st.pos, Len(text)),
               st  |-> [pos |-> Len(text) + 1, eof |-> TRUE,
                        fail |-> st.pos > Len(text)]]

\* file.seekg(0, std::ios::beg): clears eofbit, then seeks unless fail()
seekg0(st) == IF st.fail THEN [st EXCEPT !.eof = FALSE] ELSE Rewound

\* the loop of read_line: column_count calls of getline on the line's stream
RECURSIVE parse_fields(_, _, _, _)
parse_fields(line, st, sep, n) ==
    IF n = 0 THEN <<>>
    ELSE LET g == getline(line, st, sep) IN
         <<g.str>> \o parse_fields(line, g.st, sep, n - 1)

\* basic_csv::read_line: the next line of the file cut into column_count fields
read_line(text, st, sep, column_count) ==
    LET l == getline(text, st, NL) IN
    [row |-> parse_fields(l.str, Rewound, sep, column_count), st |-> l.st]

\* the fields of a line joined by the separator
RECURSIVE Joined(_, _)
Joined(line, sep) ==
    IF Len(line) = 1 THEN line[1]
    ELSE line[1] \o <<sep>> \o Joined(Tail(line), sep)

\* basic_csv::write_line: the outcomes of writing one line.  line[0] of an
\* empty row reads past the end of the vector: the build either crashes or
\* writes whatever bytes it finds there.
write_line(sep, line) ==
    IF Len(line) = 0
    THEN {[text |-> <<>>, ok |-> FALSE]}
         \cup {[text |-> g \o <<NL>>, ok |-> TRUE] : g \in Garbage}
    ELSE {[text |-> Joined(line, sep) \o <<NL>>, ok |-> TRUE]}

\* write_line over the header and then every row, stopping at a crash
RECURSIVE write_lines(_, _)
write_lines(sep, lines) ==
    IF lines = <<>> THEN {[text |-> <<>>, ok |-> TRUE]}
    ELSE UNION {
           IF w.ok
           THEN {[text |-> w.text \o r.text, ok |-> r.ok] :
                   r \in write_lines(sep, Tail(lines))}
           ELSE {w}
         : w \in write_line(sep, Head(lines))}

-----------------------------------------------------------------------------
(* The methods of basic_csv, as functions of the members and the arguments *)

\* clear() with the header left as it was
clear_rows_only(header, rows) == [header |-> header, rows |-> <<>>]

\* basic_csv::clear
clear(header, rows) == [header |-> <<>>, rows |-> <<>>]

\* basic_csv::set_header
set_header(header, rows, columns_names) ==
    [header |-> columns_names, rows |-> rows]

\* basic_csv::reserve: capacity only
reserve(rows, row_count) == rows

\* basic_csv::add_row: the outcomes.  The message of the exception reads
\* m_rows.back(), which does not exist while m_rows is empty: the build
\* either crashes or throws with a garbage number in the message.
add_row(header, rows, r) ==
    IF Len(r) # Len(header)
    THEN {[rows |-> rows, result |-> x] :
            x \in IF rows = <<>> THEN {"SizeMismatch", "crash"}
                                 ELSE {"SizeMismatch"}}
    ELSE {[rows |-> Append(rows, r), result |-> "ok"]}

\* row(idx) counting the rows from 1
row_one_based(rows, idx) ==
    IF idx = 0 \/ idx > Len(rows)
    THEN [result |-> "OutOfRange", ret |-> <<>>]
    ELSE [result |-> "ok", ret |-> rows[idx]]

\* basic_csv::row
row(rows, idx) ==
    IF idx >= Len(rows)
    THEN [result |-> "OutOfRange", ret |-> <<>>]
    ELSE [result |-> "ok", ret |-> rows[idx + 1]]

\* the row loop of load: row_count times push_back(read_line), then the
\* size check against the header
RECURSIVE read_rows(_, _, _, _, _, _, _)
read_rows(text, st, sep, column_count, n, header, rows) ==
    IF n = 0 THEN [rows |-> rows, result |-> "ok"]
    ELSE LET l == read_line(text, st, sep, column_count)
             pushed == Append(rows, l.row)
         IN  IF Len(pushed[Len(pushed)]) # Len(header)
             THEN [rows |-> pushed, result |-> "SizeMismatch"]
             ELSE read_rows(text, l.st, sep, column_count, n - 1, header, pushed)

\* load once the file is open: count the rows, count the columns, read the
\* header, read the rows, close the file
load_open(sep, header, rows, text) ==
    LET row_count == Count(text, NL)
        temp == getline(text, Rewound, NL)
        column_count == IF Len(temp.str) > 0
                        THEN Count(temp.str, sep) + 1 ELSE 0
        h == read_line(text, seekg0(temp.st), sep, column_count)
        body == read_rows(text, h.st, sep, column_count, row_count, h.row, rows)
    IN  [header |-> h.row, rows |-> body.rows, result |-> body.result,
         handle |-> FALSE]

\* load() emptying the table before it opens the file
load_clear_first(sep, header, rows, file) ==
    IF ~file.exists
    THEN [header |-> <<>>, rows |-> <<>>, result |-> "IOError", handle |-> FALSE]
    ELSE load_open(sep, <<>>, <<>>, file.text)

\* basic_csv::load
load(sep, header, rows, file) ==
    IF ~file.exists
    THEN [header |-> header, rows |-> rows, result |-> "IOError", handle |-> FALSE]
    ELSE load_open(sep, header, rows, file.text)

\* basic_csv::save: the outcomes; writable says whether the path can be opened
save(sep, header, rows, writable) ==
    IF ~writable
    THEN {[file |-> NoFile, result |-> "IOError", handle |-> FALSE]}
    ELSE {[file |-> FileOf(w.text),
           result |-> IF w.ok THEN "ok" ELSE "crash",
           handle |-> FALSE] : w \in write_lines(sep, <<header>> \o rows)}

-----------------------------------------------------------------------------
(* The calls, one action each *)

\* the process is still running (it has not crashed in an earlier call)
Alive == result # "crash"

\* basic_csv(separator): the state after construction
Init ==
    /\ m_separator \in Seps
    /\ m_header = <<>>
    /\ m_rows = <<>>
    /\ op = "construct"
    /\ arg_row = <<>>
    /\ arg_idx = 0
    /\ io = NoFile
    /\ handle = FALSE
    /\ result = "ok"
    /\ ret = <<>>

SetHeader(columns_names) ==
    /\ Alive
    /\ LET t == set_header(m_header, m_rows, columns_names) IN
       /\ m_header' = t.header
       /\ m_rows' = t.rows
    /\ op' = "set_header"
    /\ arg_row' = columns_names
    /\ arg_idx' = 0
    /\ io' = NoFile
    /\ result' = "ok"
    /\ ret' = <<>>
    /\ UNCHANGED <<m_separator, handle>>

AddRow(r) ==
    /\ Alive
    /\ Len(r) = Len(m_header) => Len(m_rows) < MaxRows
    /\ \E t \in add_row(m_header, m_rows, r) :
         /\ m_rows' = t.rows
         /\ result' = t.result
    /\ op' = "add_row"
    /\ arg_row' = r
    /\ arg_idx' = 0
    /\ io' = NoFile
    /\ ret' = <<>>
    /\ UNCHANGED <<m_separator, m_header, handle>>

Clear ==
    /\ Alive
    /\ LET t == clear(m_header, m_rows) IN
       /\ m_header' = t.header
       /\ m_rows' = t.rows
    /\ op' = "clear"
    /\ arg_row' = <<>>
    /\ arg_idx' = 0
    /\ io' = NoFile
    /\ result' = "ok"
    /\ ret' = <<>>
    /\ UNCHANGED <<m_separator, handle>>

Reserve(row_count) ==
    /\ Alive
    /\ m_rows' = reserve(m_rows, row_count)
    /\ op' = "reserve"
    /\ arg_row' = <<>>
    /\ arg_idx' = row_count
    /\ io' = NoFile
    /\ result' = "ok"
    /\ ret' = <<>>
    /\ UNCHANGED <<m_separator, m_header, handle>>

Row(idx) ==
    /\ Alive
    /\ LET t == row(m_rows, idx) IN
       /\ result' = t.result
       /\ ret' = t.ret
    /\ op' = "row"
    /\ arg_row' = <<>>
    /\ arg_idx' = idx
    /\ io' = NoFile
    /\ UNCHANGED <<m_separator, m_header, m_rows, handle>>

\* load(filename) where the file at filename is `file`
LoadCall(file) ==
    /\ Alive
    /\ LET t == load(m_separator, m_header, m_rows, file) IN
       /\ m_header' = t.header
       /\ m_rows' = t.rows
       /\ result' = t.result
       /\ handle' = t.handle
    /\ op' = "load"
    /\ arg_row' = <<>>
    /\ arg_idx' = 0
    /\ io' = file
    /\ ret' = <<>>
    /\ UNCHANGED m_separator

\* save(filename) where filename can be opened for writing or not
Save(writable) ==
    /\ Alive
    /\ \E t \in save(m_separator, m_header, m_rows, writable) :
         /\ io' = t.file
         /\ result' = t.result
         /\ handle' = t.handle
    /\ op' = "save"
    /\ arg_row' = <<>>
    /\ arg_idx' = 0
    /\ ret' = <<>>
    /\ UNCHANGED <<m_separator, m_header, m_rows>>

\* load on a table that may already hold rows, of a file of the environment
Load(file) ==
    /\ Len(m_rows) + Count(file.text, NL) <= MaxRows
    /\ LoadCall(file)

\* load as the first call on a just-constructed table
LoadFresh(file) ==
    /\ op = "construct"
    /\ LoadCall(file)

\* basic_csv fresh(m_separator); fresh.load(filename), right after a
\* successful save(filename) of this table: the file is what save wrote
Reload ==
    /\ op = "save"
    /\ result = "ok"
    /\ Count(io.text, NL) <= MaxRows
    /\ LET t == load(m_separator, <<>>, <<>>, io) IN
       /\ m_header' = t.header
       /\ m_rows' = t.rows
       /\ result' = t.result
       /\ handle' = t.handle
    /\ op' = "load"
    /\ arg_row' = <<>>
    /\ arg_idx' = 0
    /\ ret' = <<>>
    /\ UNCHANGED <<m_separator, io>>

\* every call, in any order, on one table
Next ==
    \/ \E c \in RowInputs : SetHeader(c)
    \/ \E r \in RowInputs : AddRow(r)
    \/ Clear
    \/ \E n \in 0..MaxRows : Reserve(n)
    \/ \E i \in 0..(MaxRows + 1) : Row(i)
    \/ \E f \in FilesOver(FileChars, MaxFileLen) : Load(f)
    \/ \E w \in BOOLEAN : Save(w)

Spec == Init /\ [][Next]_vars

\* one load of any file into a just-constructed table
NextLoad == \E f \in FilesOver(LoadChars, MaxLoadLen) : LoadFresh(f)

SpecLoad == Init /\ [][NextLoad]_vars

\* a table is filled by its caller, saved, and read back into a fresh table
NextRoundTrip ==
    \/ \E c \in RowInputs : SetHeader(c)
    \/ \E r \in RowInputs : AddRow(r)
    \/ Save(TRUE)
    \/ Reload

SpecRoundTrip == Init /\ [][NextRoundTrip]_vars

-----------------------------------------------------------------------------
(* What the claims speak of, stated without the code's own helpers *)

\* the pieces of s between the occurrences of c
RECURSIVE SplitAt(_, _)
SplitAt(s, c) ==
    IF \A i \in 1..Len(s) : s[i] # c THEN <<s>>
    ELSE LET j == CHOOSE i \in 1..Len(s) :
                     s[i] = c /\ \A k \in 1..(i - 1) : s[k] # c
         IN  <<SubSeq(s, 1, j - 1)>> \o SplitAt(SubSeq(s, j + 1, Len(s)), c)

\* the lines of a text whose every line ends in a newline
LinesOf(text) == LET p == SplitAt(text, NL) IN SubSeq(p, 1, Len(p) - 1)

\* a header line of at least one character, then data lines, every line
\* ended by a newline
Terminated(text) ==
    /\ Len(text) > 0
    /\ text[Len(text)] = NL
    /\ Len(LinesOf(text)[1]) > 0

WidthOf(line, d) == Len(SplitAt(line, d))

WellFormed(text, d) ==
    /\ Terminated(text)
    /\ \A i \in 1..Len(LinesOf(text)) :
         WidthOf(LinesOf(text)[i], d) = WidthOf(LinesOf(text)[1], d)

\* some data line that is not blank has another number of fields than the
\* header line
HasOddLine(text, d) ==
    /\ Terminated(text)
    /\ \E i \in 2..Len(LinesOf(text)) :
         /\ Len(LinesOf(text)[i]) > 0
         /\ WidthOf(LinesOf(text)[i], d) # WidthOf(LinesOf(text)[1], d)

\* the fields of a line joined by d
RECURSIVE JoinWith(_, _)
JoinWith(l, d) ==
    IF Len(l) = 0 THEN <<>>
    ELSE IF Len(l) = 1 THEN l[1]
    ELSE JoinWith(SubSeq(l, 1, Len(l) - 1), d) \o <<d>> \o l[Len(l)]

\* the text of a table: every line joined by d and ended by a newline
RECURSIVE TextOf(_, _)
TextOf(lines, d) ==
    IF lines = <<>> THEN <<>>
    ELSE JoinWith(Head(lines), d) \o <<NL>> \o TextOf(Tail(lines), d)

RowsMatchHeader(header, rows) ==
    \A i \in 1..Len(rows) : Len(rows[i]) = Len(header)

CleanFields(header, rows, d) ==
    \A l \in {header} \cup {rows[i] : i \in 1..Len(rows)} :
        \A k \in 1..Len(l) : \A c \in 1..Len(l[k]) : l[k][c] \notin {d, NL}

-----------------------------------------------------------------------------
(* The claims *)

\* C1: in every reachable state every stored row has exactly as many fields
\* as the current header.
C1_RowsMatchHeader == RowsMatchHeader(m_header, m_rows)

\* C2: add_row(row) with a row whose length differs from the header's fails
\* with SizeMismatch and leaves rows() unchanged, whatever the table holds
\* (also with no stored rows); with equal lengths the row is appended at the
\* end and the earlier rows are unchanged.
C2_AddRow ==
    [][op' = "add_row" =>
         IF Len(arg_row') # Len(m_header)
         THEN result' = "SizeMismatch" /\ m_rows' = m_rows
         ELSE result' = "ok" /\ m_rows' = Append(m_rows, arg_row')]_vars

\* C3: a table with a non-empty header and rows of header width whose fields
\* hold neither the delimiter nor a newline, saved and then loaded into a
\* fresh table with the same delimiter, comes back with the same header and
\* the same rows.
C3_RoundTrip ==
    [][(/\ op = "save"
        /\ op' = "load"
        /\ Len(m_header) > 0
        /\ RowsMatchHeader(m_header, m_rows)
        /\ CleanFields(m_header, m_rows, m_separator))
       => (result' = "ok" /\ m_header' = m_header /\ m_rows' = m_rows)]_vars

\* C4: loading a well-formed file (a header line and k >= 0 data lines, each
\* ended by a newline and of the same number of fields) into a fresh table
\* gives the first line's fields as header and exactly the k data lines'
\* fields, in file order, as rows.
C4_LoadWellFormed ==
    (op = "load" /\ io.exists /\ WellFormed(io.text, m_separator)) =>
        LET ls == LinesOf(io.text) IN
        /\ result = "ok"
        /\ m_header = SplitAt(ls[1], m_separator)
        /\ Len(m_rows) = Len(ls) - 1
        /\ \A i \in 1..Len(m_rows) : m_rows[i] = SplitAt(ls[i + 1], m_separator)

\* C5: a successful load on a table that already holds a header and rows
\* leaves the header and the rows a fresh table would have after loading the
\* same file.
C5_LoadReplaces ==
    [][(op' = "load" /\ result' = "ok" /\ Len(m_header) > 0 /\ Len(m_rows) > 0) =>
         LET fresh == load(m_separator, <<>>, <<>>, io') IN
         m_header' = fresh.header /\ m_rows' = fresh.rows]_vars

\* C6: load fails with a SizeMismatch error whenever some data line has a
\* number of fields other than the header line's (one field where the header
\* line has two, say).
C6_LoadRejectsOddLine ==
    (op = "load" /\ io.exists /\ HasOddLine(io.text, m_separator)) =>
        result = "SizeMismatch"

\* C7: row(idx) fails with OutOfRange for every idx >= rows().length and
\* returns the idx-th stored row (0 the first) for every smaller idx; the
\* table is unchanged either way.
C7_Row ==
    [][op' = "row" =>
         /\ table' = table
         /\ IF arg_idx' >= Len(m_rows)
            THEN result' = "OutOfRange"
            ELSE result' = "ok" /\ ret' = m_rows[arg_idx' + 1]]_vars

C7_Witness ==
    /\ op = "row"
    /\ result = "ok"
    /\ arg_idx = 1
    /\ Len(m_rows) = 2
    /\ m_rows[1] # m_rows[2]
    /\ ret = m_rows[2]

\* C8: after clear(), whatever the table held, header() and rows() are empty
\* and the delimiter is the one given at construction.
C8_Clear ==
    [][op' = "clear" =>
         (m_header' = <<>> /\ m_rows' = <<>> /\ m_separator' = m_separator)]_vars

C8_Witness ==
    /\ op = "clear"
    /\ m_header = <<>>
    /\ m_rows = <<>>
    /\ m_separator = ";"

\* C9: save on a writable path, in every reachable state (also with an empty
\* header), writes the header joined by the delimiter and a newline, then
\* every row the same way in row order, and leaves the table unchanged.
C9_Save ==
    [][(op' = "save" /\ io'.exists) =>
         /\ result' = "ok"
         /\ io'.text = TextOf(<<m_header>> \o m_rows, m_separator)
         /\ table' = table]_vars

\* C10: load of a file that cannot be opened fails with IOError, leaves
\* header(), rows() and the delimiter as they were, and leaves no file
\* handle open.
C10_LoadUnopenable ==
    [][(op' = "load" /\ ~io'.exists) =>
         (result' = "IOError" /\ table' = table /\ ~handle')]_vars

C10_Witness ==
    /\ op = "load"
    /\ ~io.exists
    /\ result = "IOError"
    /\ Len(m_header) > 0
    /\ Len(m_rows) > 0

====
